---- MODULE Spec2Model ----
(***************************************************************************)
(* FlowForge backend: the CRUD repository (crud.py), its HTTP handlers     *)
(* (routers.py, org_routers.py), the ORM mapping (models.py) and the       *)
(* request/response schemas (schemas.py), as a state machine over the      *)
(* four stored tables.                                                     *)
(*                                                                         *)
(* A table is the sequence of its rows in storage order.  Every write      *)
(* handler is one action; the read handlers are operators over the         *)
(* storage state, since they change nothing.  `pre` is the storage as it   *)
(* was when the last request arrived and `last` is that request with its   *)
(* response, so that what a handler did is a predicate of one state.       *)
(***************************************************************************)
EXTENDS Integers, Sequences, FiniteSets, TLC

VARIABLES db, now, pre, last

vars == <<db, now, pre, last>>

----------------------------------------------------------------------------
(* Bounds of the model. *)

\* primary keys are drawn from 1..MaxId, so a table holds at most MaxId rows
MaxId == 2
\* the clock stops the exploration after MaxTime committed writes
MaxTime == 4
\* the largest offset and the largest small limit the list checks try
MaxSkip == 2
MaxLimit == 1

----------------------------------------------------------------------------
(* Values. *)

\* Python None returned by a query that finds no row
None == <<>>
\* SQL NULL in a text column
NULL == "NULL"
\* SQL NULL in a timestamp column (the clock starts above it)
NullTime == 0
\* default of the limit parameter
DefaultLimit == 100

Ids == 1..MaxId
\* ids a client may name: the possible keys and one that is never assigned
AnyIds == 1..(MaxId + 1)

Min(a, b) == IF a < b THEN a ELSE b

\* request bodies: a field left out of the body is absent from the record
TaskPayloads ==
    { [title |-> "a"],
      [title |-> "b", description |-> "d", completed |-> TRUE] }

DepartmentPayloads ==
    { [name |-> "a"],
      [name |-> "b", description |-> "d"] }

RolePayloads ==
    { [name |-> "a", department_id |-> d] : d \in Ids } \cup
    { [name |-> "b", description |-> "d", department_id |-> d] : d \in Ids }

FunctionPayloads ==
    { [name |-> "a", role_id |-> r] : r \in Ids } \cup
    { [name |-> "b", description |-> "d", role_id |-> r] : r \in Ids }

----------------------------------------------------------------------------
(* schemas.py: the parsed request models and their dict(). *)

TaskCreate_dict(task) ==
    [ title       |-> task.title,
      description |-> IF "description" \in DOMAIN task THEN task.description ELSE NULL,
      completed   |-> IF "completed" \in DOMAIN task THEN task.completed ELSE FALSE ]

DepartmentCreate_dict(department) ==
    [ name        |-> department.name,
      description |-> IF "description" \in DOMAIN department
                      THEN department.description ELSE NULL ]

RoleCreate_dict(role) ==
    [ name          |-> role.name,
      description   |-> IF "description" \in DOMAIN role THEN role.description ELSE NULL,
      department_id |-> role.department_id ]

FunctionCreate_dict(function) ==
    [ name        |-> function.name,
      description |-> IF "description" \in DOMAIN function
                      THEN function.description ELSE NULL,
      role_id     |-> function.role_id ]

(* schemas.py: the flat response models (orm_mode reads the listed fields). *)

Schema_Task(o) ==
    [ id |-> o.id, title |-> o.title, description |-> o.description,
      completed |-> o.completed, created_at |-> o.created_at,
      updated_at |-> o.updated_at ]

Schema_Department(o) ==
    [ id |-> o.id, name |-> o.name, description |-> o.description,
      created_at |-> o.created_at, updated_at |-> o.updated_at ]

Schema_Role(o) ==
    [ id |-> o.id, name |-> o.name, description |-> o.description,
      department_id |-> o.department_id,
      created_at |-> o.created_at, updated_at |-> o.updated_at ]

Schema_Function(o) ==
    [ id |-> o.id, name |-> o.name, description |-> o.description,
      role_id |-> o.role_id,
      created_at |-> o.created_at, updated_at |-> o.updated_at ]

----------------------------------------------------------------------------
(* The storage layer behind the Session. *)

\* the primary keys stored in a table
Keys(table) == { table[i].id : i \in 1..Len(table) }

\* the rows of a table, as a set
Rows(table) == { table[i] : i \in 1..Len(table) }

\* the largest element of a set of keys, 0 when there is none
Max0(S) == IF S = {} THEN 0 ELSE CHOOSE x \in S : \A y \in S : y <= x

\* the key storage assigns to a new row of an Integer primary_key column: one
\* more than the largest stored key (none when the keys of the model are used up)
NewIds(table) == {Max0(Keys(table)) + 1} \cap Ids

\* whether storage checks the declared foreign keys on INSERT and UPDATE
ForeignKeysEnforced == TRUE

\* roles.department_id -> departments.id
Role_department_fk(s, department_id) ==
    ForeignKeysEnforced => department_id \in Keys(s.departments)

\* functions.role_id -> roles.id
Function_role_fk(s, role_id) ==
    ForeignKeysEnforced => role_id \in Keys(s.roles)

\* INSERT: the new row comes last in the table's natural order
Insert(table, row) == Append(table, row)

\* DELETE of the rows with the given keys
DeleteKeys(table, keys) == SelectSeq(table, LAMBDA o : o.id \notin keys)

\* UPDATE of one row, in place
UpdateRow(table, row) ==
    [ i \in 1..Len(table) |-> IF table[i].id = row.id THEN row ELSE table[i] ]

----------------------------------------------------------------------------
(* The ORM: queries, attribute assignment and the unit of work. *)

\* Query.first()
first(q) == IF Len(q) = 0 THEN None ELSE q[1]

\* variant: the limit taken before the offset
Paginate_limit_first(q, skip, limit) ==
    IF skip >= Min(Len(q), limit) THEN << >>
    ELSE SubSeq(q, skip + 1, Min(Len(q), limit))

\* Query.offset(skip).limit(limit).all()
Paginate(q, skip, limit) ==
    IF skip >= Len(q) THEN << >>
    ELSE SubSeq(q, skip + 1, Min(Len(q), skip + limit))

\* variant: the loop skips the values that are None (a partial patch);
\* description is the one field whose value can be None
setattr_not_none(o, values) ==
    [ k \in DOMAIN o |->
        IF k \in DOMAIN values /\ ~(k = "description" /\ values[k] = NULL)
        THEN values[k] ELSE o[k] ]

\* for key, value in x.dict().items(): setattr(db_x, key, value)
setattr_all(o, values) ==
    [ k \in DOMAIN o |-> IF k \in DOMAIN values THEN values[k] ELSE o[k] ]

\* commit() of a loaded object: the unit of work emits an UPDATE only when some
\* attribute differs from its loaded value, and onupdate=func.now() is part
\* of that UPDATE
Flush(loaded, o, t) ==
    IF o = loaded THEN loaded ELSE [o EXCEPT !.updated_at = t]

\* Role.functions: the Functions whose role_id is the Role's id
Role_functions(s, role) ==
    SelectSeq(s.functions, LAMBDA f : f.role_id = role.id)

\* Department.roles: the Roles whose department_id is the Department's id
Department_roles(s, department) ==
    SelectSeq(s.roles, LAMBDA r : r.department_id = department.id)

\* Session.delete(function)
Session_delete_function(s, function) ==
    [s EXCEPT !.functions = DeleteKeys(@, {function.id})]

\* variant: Role.functions declared without a cascade, so that deleting a
\* Role leaves its Functions stored
Session_delete_role_nocascade(s, role) ==
    [s EXCEPT !.roles = DeleteKeys(@, {role.id})]

\* variant: the cascade declared on Role.department as well, so that deleting
\* a Role takes its Department with it
Session_delete_role_cascade_up(s, role) ==
    [s EXCEPT !.functions   = DeleteKeys(@, Keys(Role_functions(s, role))),
              !.roles       = DeleteKeys(@, {role.id}),
              !.departments = DeleteKeys(@, {role.department_id})]

\* Session.delete(role): cascade="all, delete-orphan" on Role.functions
Session_delete_role(s, role) ==
    [s EXCEPT !.functions = DeleteKeys(@, Keys(Role_functions(s, role))),
              !.roles     = DeleteKeys(@, {role.id})]

RECURSIVE delete_each_role(_, _)
delete_each_role(s, rs) ==
    IF Len(rs) = 0 THEN s
    ELSE delete_each_role(Session_delete_role(s, rs[1]), Tail(rs))

\* variant: Department.roles declared without a cascade, so that deleting a
\* Department leaves its Roles stored
Session_delete_department_nocascade(s, department) ==
    [s EXCEPT !.departments = DeleteKeys(@, {department.id})]

\* Session.delete(department): cascade="all, delete-orphan" on Department.roles
Session_delete_department(s, department) ==
    [delete_each_role(s, Department_roles(s, department))
        EXCEPT !.departments = DeleteKeys(@, {department.id})]

\* Session.delete(task)
Session_delete_task(s, task) ==
    [s EXCEPT !.tasks = DeleteKeys(@, {task.id})]

\* what a crud function hands back: the storage after it, its return value,
\* and whether commit() raised
Returned(s, ret) == [db |-> s, ret |-> ret, raised |-> FALSE]
Raised(s) == [db |-> s, ret |-> None, raised |-> TRUE]

----------------------------------------------------------------------------
(* crud.py: tasks.  `id` is the key storage assigns and `t` the storage     *)
(* clock's reading during the call.                                        *)

get_task(s, task_id) ==
    first(SelectSeq(s.tasks, LAMBDA o : o.id = task_id))

get_tasks(s, skip, limit) == Paginate(s.tasks, skip, limit)

crud_create_task(s, task, id, t) ==
    LET db_task == [ id |-> id, created_at |-> t, updated_at |-> NullTime ]
                   @@ TaskCreate_dict(task)
    IN  Returned([s EXCEPT !.tasks = Insert(@, db_task)], db_task)

\* variant: update written with Session.merge(), which inserts the row when
\* the key is not stored
crud_update_task_upsert(s, task_id, task, t) ==
    LET db_task == get_task(s, task_id)
        values  == TaskCreate_dict(task)
    IN  IF db_task # None
        THEN LET o == Flush(db_task, setattr_all(db_task, values), t)
             IN  Returned([s EXCEPT !.tasks = UpdateRow(@, o)], o)
        ELSE LET o == [ id |-> task_id, created_at |-> t, updated_at |-> NullTime ]
                      @@ values
             IN  Returned([s EXCEPT !.tasks = Insert(@, o)], o)

crud_update_task(s, task_id, task, t) ==
    LET db_task == get_task(s, task_id)
    IN  IF db_task # None
        THEN LET o == Flush(db_task, setattr_all(db_task, TaskCreate_dict(task)), t)
             IN  Returned([s EXCEPT !.tasks = UpdateRow(@, o)], o)
        ELSE Returned(s, db_task)

\* variant: delete that returns the object as queried after the commit
crud_delete_task_requery(s, task_id) ==
    LET db_task == get_task(s, task_id)
    IN  IF db_task # None
        THEN Returned(Session_delete_task(s, db_task),
                      get_task(Session_delete_task(s, db_task), task_id))
        ELSE Returned(s, db_task)

crud_delete_task(s, task_id) ==
    LET db_task == get_task(s, task_id)
    IN  IF db_task # None
        THEN Returned(Session_delete_task(s, db_task), db_task)
        ELSE Returned(s, db_task)

(* crud.py: departments. *)

get_department(s, department_id) ==
    first(SelectSeq(s.departments, LAMBDA o : o.id = department_id))

get_departments(s, skip, limit) == Paginate(s.departments, skip, limit)

crud_create_department(s, department, id, t) ==
    LET db_department == [ id |-> id, created_at |-> t, updated_at |-> NullTime ]
                         @@ DepartmentCreate_dict(department)
    IN  Returned([s EXCEPT !.departments = Insert(@, db_department)], db_department)

crud_update_department(s, department_id, department, t) ==
    LET db_department == get_department(s, department_id)
    IN  IF db_department # None
        THEN LET o == Flush(db_department,
                            setattr_all(db_department, DepartmentCreate_dict(department)), t)
             IN  Returned([s EXCEPT !.departments = UpdateRow(@, o)], o)
        ELSE Returned(s, db_department)

crud_delete_department(s, department_id) ==
    LET db_department == get_department(s, department_id)
    IN  IF db_department # None
        THEN Returned(Session_delete_department(s, db_department), db_department)
        ELSE Returned(s, db_department)

(* crud.py: roles. *)

get_role(s, role_id) ==
    first(SelectSeq(s.roles, LAMBDA o : o.id = role_id))

get_roles(s, skip, limit) == Paginate(s.roles, skip, limit)

\* variant: the query without its filter on department_id
get_roles_by_department_nofilter(s, department_id, skip, limit) ==
    Paginate(s.roles, skip, limit)

get_roles_by_department(s, department_id, skip, limit) ==
    Paginate(SelectSeq(s.roles, LAMBDA o : o.department_id = department_id), skip, limit)

crud_create_role(s, role, id, t) ==
    LET db_role == [ id |-> id, created_at |-> t, updated_at |-> NullTime ]
                   @@ RoleCreate_dict(role)
    IN  IF Role_department_fk(s, db_role.department_id)
        THEN Returned([s EXCEPT !.roles = Insert(@, db_role)], db_role)
        ELSE Raised(s)

crud_update_role(s, role_id, role, t) ==
    LET db_role == get_role(s, role_id)
    IN  IF db_role # None
        THEN LET o == Flush(db_role, setattr_all(db_role, RoleCreate_dict(role)), t)
             IN  IF Role_department_fk(s, o.department_id)
                 THEN Returned([s EXCEPT !.roles = UpdateRow(@, o)], o)
                 ELSE Raised(s)
        ELSE Returned(s, db_role)

crud_delete_role(s, role_id) ==
    LET db_role == get_role(s, role_id)
    IN  IF db_role # None
        THEN Returned(Session_delete_role(s, db_role), db_role)
        ELSE Returned(s, db_role)

(* crud.py: functions. *)

get_function(s, function_id) ==
    first(SelectSeq(s.functions, LAMBDA o : o.id = function_id))

get_functions(s, skip, limit) == Paginate(s.functions, skip, limit)

get_functions_by_role(s, role_id, skip, limit) ==
    Paginate(SelectSeq(s.functions, LAMBDA o : o.role_id = role_id), skip, limit)

crud_create_function(s, function, id, t) ==
    LET db_function == [ id |-> id, created_at |-> t, updated_at |-> NullTime ]
                       @@ FunctionCreate_dict(function)
    IN  IF Function_role_fk(s, db_function.role_id)
        THEN Returned([s EXCEPT !.functions = Insert(@, db_function)], db_function)
        ELSE Raised(s)

crud_update_function(s, function_id, function, t) ==
    LET db_function == get_function(s, function_id)
    IN  IF db_function # None
        THEN LET o == Flush(db_function,
                            setattr_all(db_function, FunctionCreate_dict(function)), t)
             IN  IF Function_role_fk(s, o.role_id)
                 THEN Returned([s EXCEPT !.functions = UpdateRow(@, o)], o)
                 ELSE Raised(s)
        ELSE Returned(s, db_function)

crud_delete_function(s, function_id) ==
    LET db_function == get_function(s, function_id)
    IN  IF db_function # None
        THEN Returned(Session_delete_function(s, db_function), db_function)
        ELSE Returned(s, db_function)

----------------------------------------------------------------------------
(* Responses. *)

OK(body) == [status |-> 200, body |-> body]

\* raise HTTPException(status_code=404, detail=...)
HTTPException(status_code, detail) ==
    [status |-> status_code, body |-> [detail |-> detail]]

\* an exception of commit() that no handler catches
ServerError == [status |-> 500, body |-> [detail |-> "Internal Server Error"]]

\* response_model=schemas.X: the object read through the flat schema X
response_model(X, o) ==
    CASE X = "Task"       -> Schema_Task(o)
      [] X = "Department" -> Schema_Department(o)
      [] X = "Role"       -> Schema_Role(o)
      [] X = "Function"   -> Schema_Function(o)

\* response_model=List[schemas.X]
List(q, X) == [ i \in 1..Len(q) |-> response_model(X, q[i]) ]

\* variant: the roles attribute loaded without the join on department_id
DepartmentWithRoles_all(s, o) ==
    Schema_Department(o) @@ [roles |-> List(s.roles, "Role")]

\* schemas.DepartmentWithRoles: the flat fields and the loaded Department.roles
DepartmentWithRoles(s, o) ==
    Schema_Department(o) @@ [roles |-> List(Department_roles(s, o), "Role")]

\* schemas.RoleWithFunctions: the flat fields and the loaded Role.functions
RoleWithFunctions(s, o) ==
    Schema_Role(o) @@ [functions |-> List(Role_functions(s, o), "Function")]

\* the response of a write handler to what its crud call handed back
Respond(r, X, detail) ==
    IF r.raised THEN ServerError
    ELSE IF r.ret = None THEN HTTPException(404, detail)
    ELSE OK(response_model(X, r.ret))

----------------------------------------------------------------------------
(* routers.py and org_routers.py: the read handlers. *)

read_tasks(s, skip, limit) == OK(List(get_tasks(s, skip, limit), "Task"))

read_task(s, task_id) ==
    LET db_task == get_task(s, task_id)
    IN  IF db_task = None THEN HTTPException(404, "Task not found")
        ELSE OK(Schema_Task(db_task))

read_departments(s, skip, limit) ==
    OK(List(get_departments(s, skip, limit), "Department"))

read_department(s, department_id) ==
    LET db_department == get_department(s, department_id)
    IN  IF db_department = None THEN HTTPException(404, "Department not found")
        ELSE OK(DepartmentWithRoles(s, db_department))

read_roles(s, skip, limit) == OK(List(get_roles(s, skip, limit), "Role"))

read_roles_by_department(s, department_id, skip, limit) ==
    OK(List(get_roles_by_department(s, department_id, skip, limit), "Role"))

read_role(s, role_id) ==
    LET db_role == get_role(s, role_id)
    IN  IF db_role = None THEN HTTPException(404, "Role not found")
        ELSE OK(RoleWithFunctions(s, db_role))

read_functions(s, skip, limit) ==
    OK(List(get_functions(s, skip, limit), "Function"))

read_functions_by_role(s, role_id, skip, limit) ==
    OK(List(get_functions_by_role(s, role_id, skip, limit), "Function"))

read_function(s, function_id) ==
    LET db_function == get_function(s, function_id)
    IN  IF db_function = None THEN HTTPException(404, "Function not found")
        ELSE OK(Schema_Function(db_function))

----------------------------------------------------------------------------
(* routers.py and org_routers.py: the write handlers, one action each. *)

\* one request in its own session: what the crud call committed becomes the
\* storage, a call that raised or found nothing leaves it as it was, and the
\* clock has moved on by the next commit.  A refused request leaves db and now
\* as they were, so the requests that can follow it are the ones that can follow
\* the state before it: they are taken from there, once, and the reachable
\* states are the same.
Request(op, id, payload, r, response) ==
    /\ now < MaxTime
    /\ last.response.status = 200
    /\ pre' = db
    /\ db' = r.db
    /\ now' = IF response.status = 200 THEN now + 1 ELSE now
    /\ last' = [op |-> op, id |-> id, payload |-> payload, response |-> response]

create_task(task) ==
    \E id \in NewIds(db.tasks) :
        LET r == crud_create_task(db, task, id, now + 1)
        IN  Request("create_task", id, task, r, Respond(r, "Task", "Task not found"))

update_task(task_id, task) ==
    LET r == crud_update_task(db, task_id, task, now + 1)
    IN  Request("update_task", task_id, task, r, Respond(r, "Task", "Task not found"))

delete_task(task_id) ==
    LET r == crud_delete_task(db, task_id)
    IN  Request("delete_task", task_id, None, r, Respond(r, "Task", "Task not found"))

create_department(department) ==
    \E id \in NewIds(db.departments) :
        LET r == crud_create_department(db, department, id, now + 1)
        IN  Request("create_department", id, department, r,
                    Respond(r, "Department", "Department not found"))

update_department(department_id, department) ==
    LET r == crud_update_department(db, department_id, department, now + 1)
    IN  Request("update_department", department_id, department, r,
                Respond(r, "Department", "Department not found"))

delete_department(department_id) ==
    LET r == crud_delete_department(db, department_id)
    IN  Request("delete_department", department_id, None, r,
                Respond(r, "Department", "Department not found"))

create_role(role) ==
    \E id \in NewIds(db.roles) :
        LET r == crud_create_role(db, role, id, now + 1)
        IN  Request("create_role", id, role, r, Respond(r, "Role", "Role not found"))

update_role(role_id, role) ==
    LET r == crud_update_role(db, role_id, role, now + 1)
    IN  Request("update_role", role_id, role, r, Respond(r, "Role", "Role not found"))

delete_role(role_id) ==
    LET r == crud_delete_role(db, role_id)
    IN  Request("delete_role", role_id, None, r, Respond(r, "Role", "Role not found"))

create_function(function) ==
    \E id \in NewIds(db.functions) :
        LET r == crud_create_function(db, function, id, now + 1)
        IN  Request("create_function", id, function, r,
                    Respond(r, "Function", "Function not found"))

update_function(function_id, function) ==
    LET r == crud_update_function(db, function_id, function, now + 1)
    IN  Request("update_function", function_id, function, r,
                Respond(r, "Function", "Function not found"))

delete_function(function_id) ==
    LET r == crud_delete_function(db, function_id)
    IN  Request("delete_function", function_id, None, r,
                Respond(r, "Function", "Function not found"))

----------------------------------------------------------------------------
(* The specification. *)

\* main.py: create_all() on a fresh database leaves four empty tables
Init ==
    /\ db = [tasks |-> << >>, departments |-> << >>, roles |-> << >>, functions |-> << >>]
    /\ now = 0
    /\ pre = db
    /\ last = [op |-> "none", id |-> 0, payload |-> None, response |-> OK(None)]

Next ==
    \/ \E task \in TaskPayloads : create_task(task)
    \/ \E task_id \in AnyIds, task \in TaskPayloads : update_task(task_id, task)
    \/ \E task_id \in AnyIds : delete_task(task_id)
    \/ \E department \in DepartmentPayloads : create_department(department)
    \/ \E department_id \in AnyIds, department \in DepartmentPayloads :
           update_department(department_id, department)
    \/ \E department_id \in AnyIds : delete_department(department_id)
    \/ \E role \in RolePayloads : create_role(role)
    \/ \E role_id \in AnyIds, role \in RolePayloads : update_role(role_id, role)
    \/ \E role_id \in AnyIds : delete_role(role_id)
    \/ \E function \in FunctionPayloads : create_function(function)
    \/ \E function_id \in AnyIds, function \in FunctionPayloads :
           update_function(function_id, function)
    \/ \E function_id \in AnyIds : delete_function(function_id)

Spec == Init /\ [][Next]_vars

\* The behaviours in which every request is accepted.  A refused request
\* changes neither db nor now, so the storage states of Spec are those of
\* SpecAccepted; what the read handlers answer depends on the storage alone.
Accepted == last'.response.status = 200

NextAccepted ==
    \/ \E task \in TaskPayloads : create_task(task) /\ Accepted
    \/ \E task_id \in AnyIds, task \in TaskPayloads :
           update_task(task_id, task) /\ Accepted
    \/ \E task_id \in AnyIds : delete_task(task_id) /\ Accepted
    \/ \E department \in DepartmentPayloads : create_department(department) /\ Accepted
    \/ \E department_id \in AnyIds, department \in DepartmentPayloads :
           update_department(department_id, department) /\ Accepted
    \/ \E department_id \in AnyIds : delete_department(department_id) /\ Accepted
    \/ \E role \in RolePayloads : create_role(role) /\ Accepted
    \/ \E role_id \in AnyIds, role \in RolePayloads :
           update_role(role_id, role) /\ Accepted
    \/ \E role_id \in AnyIds : delete_role(role_id) /\ Accepted
    \/ \E function \in FunctionPayloads : create_function(function) /\ Accepted
    \/ \E function_id \in AnyIds, function \in FunctionPayloads :
           update_function(function_id, function) /\ Accepted
    \/ \E function_id \in AnyIds : delete_function(function_id) /\ Accepted

SpecAccepted == Init /\ [][NextAccepted]_vars

----------------------------------------------------------------------------
(* Vocabulary of the properties. *)

Succeeded == last.response.status = 200

TotalRows(s) ==
    Len(s.tasks) + Len(s.departments) + Len(s.roles) + Len(s.functions)

\* the page sizes tried: the small ones and the default
Limits == (0..MaxLimit) \cup {DefaultLimit}

\* the description a request body stands for
Described(p) == IF "description" \in DOMAIN p THEN p.description ELSE NULL

\* q without its first k elements
Drop(q, k) == [ i \in 1..(IF Len(q) > k THEN Len(q) - k ELSE 0) |-> q[i + k] ]

\* the first n elements of q, all of q when it has fewer
Take(q, n) == [ i \in 1..Min(Len(q), n) |-> q[i] ]

\* q lists the rows `all`, each once, the earlier created first
InCreationOrder(q, all) ==
    /\ Len(q) = Cardinality(all)
    /\ \A i \in 1..Len(q) : q[i] \in all
    /\ \A i \in 1..(Len(q) - 1) : q[i].created_at < q[i + 1].created_at

\* the elements of q are exactly the rows of `all`, each once
Exactly(q, all) ==
    /\ \A o \in all : \E i \in 1..Len(q) : q[i] = o
    /\ \A i \in 1..Len(q) : q[i] \in all
    /\ \A i, j \in 1..Len(q) : i # j => q[i] # q[j]

----------------------------------------------------------------------------
(* C1.  Referential integrity: in every reachable storage state every      *)
(* stored Role's department_id is the id of a stored Department and every  *)
(* stored Function's role_id is the id of a stored Role, whatever parent   *)
(* ids the create and update requests named.                               *)
C1_ReferentialIntegrity ==
    /\ \A r \in Rows(db.roles) : r.department_id \in Keys(db.departments)
    /\ \A f \in Rows(db.functions) : f.role_id \in Keys(db.roles)

\* Roles and Functions are stored and the last request, an update naming a
\* parent id that no row has, was refused
C1_Witness ==
    /\ last.op \in {"update_role", "update_function"}
    /\ last.response.status = 500
    /\ Len(db.roles) > 0
    /\ Len(db.functions) > 0

(* C2.  delete_department on a stored Department with N Roles and M        *)
(* Functions under them removes exactly those N + M + 1 rows and nothing   *)
(* else, and get_role / get_function then find none of the removed rows.   *)
C2_DeleteDepartmentCascades ==
    (last.op = "delete_department" /\ Succeeded) =>
        LET D == { d \in Rows(pre.departments) : d.id = last.id }
            R == { r \in Rows(pre.roles) : r.department_id = last.id }
            F == { f \in Rows(pre.functions) : \E r \in R : f.role_id = r.id }
        IN  /\ Cardinality(D) = 1
            /\ TotalRows(pre) - TotalRows(db) = Cardinality(R) + Cardinality(F) + 1
            /\ Rows(db.departments) = Rows(pre.departments) \ D
            /\ Rows(db.roles) = Rows(pre.roles) \ R
            /\ Rows(db.functions) = Rows(pre.functions) \ F
            /\ db.tasks = pre.tasks
            /\ \A r \in R : get_role(db, r.id) = None
            /\ \A f \in F : get_function(db, f.id) = None

\* a Department that had a Role with a Function has just been deleted
C2_Witness ==
    /\ last.op = "delete_department"
    /\ Succeeded
    /\ \E r \in Rows(pre.roles) :
          /\ r.department_id = last.id
          /\ \E f \in Rows(pre.functions) : f.role_id = r.id

(* C3.  For every entity type, update with an id that has no stored row    *)
(* answers 404 and leaves every table as it was.                           *)
C3_UpdateOfMissingIsNotFound ==
    /\ (last.op = "update_task" /\ get_task(pre, last.id) = None) =>
           (last.response = HTTPException(404, "Task not found") /\ db = pre)
    /\ (last.op = "update_department" /\ get_department(pre, last.id) = None) =>
           (last.response = HTTPException(404, "Department not found") /\ db = pre)
    /\ (last.op = "update_role" /\ get_role(pre, last.id) = None) =>
           (last.response = HTTPException(404, "Role not found") /\ db = pre)
    /\ (last.op = "update_function" /\ get_function(pre, last.id) = None) =>
           (last.response = HTTPException(404, "Function not found") /\ db = pre)

\* an update of a Task id that is not stored, while another Task is
C3_Witness ==
    /\ last.op = "update_task"
    /\ get_task(pre, last.id) = None
    /\ Len(pre.tasks) > 0

(* C4.  For every entity type, delete of an id with no stored row answers  *)
(* 404 with storage unchanged; delete of a stored row answers with that    *)
(* row's field values as they were just before, and the id then has no row *)
(* until a create of that type.                                            *)
C4_DeleteReturnsLastState ==
    /\ last.op = "delete_task" =>
          IF get_task(pre, last.id) = None
          THEN last.response.status = 404 /\ db = pre
          ELSE /\ last.response = OK(Schema_Task(get_task(pre, last.id)))
               /\ get_task(db, last.id) = None
    /\ last.op = "delete_department" =>
          IF get_department(pre, last.id) = None
          THEN last.response.status = 404 /\ db = pre
          ELSE /\ last.response = OK(Schema_Department(get_department(pre, last.id)))
               /\ get_department(db, last.id) = None
    /\ last.op = "delete_role" =>
          IF get_role(pre, last.id) = None
          THEN last.response.status = 404 /\ db = pre
          ELSE /\ last.response = OK(Schema_Role(get_role(pre, last.id)))
               /\ get_role(db, last.id) = None
    /\ last.op = "delete_function" =>
          IF get_function(pre, last.id) = None
          THEN last.response.status = 404 /\ db = pre
          ELSE /\ last.response = OK(Schema_Function(get_function(pre, last.id)))
               /\ get_function(db, last.id) = None
    /\ \A id \in AnyIds :
          /\ (get_task(pre, id) = None /\ last.op # "create_task") =>
                 read_task(db, id).status = 404
          /\ (get_department(pre, id) = None /\ last.op # "create_department") =>
                 read_department(db, id).status = 404
          /\ (get_role(pre, id) = None /\ last.op # "create_role") =>
                 read_role(db, id).status = 404
          /\ (get_function(pre, id) = None /\ last.op # "create_function") =>
                 read_function(db, id).status = 404

\* a Task that had been updated has just been deleted, and the response
\* carries the values of that update
C4_Witness ==
    /\ last.op = "delete_task"
    /\ Succeeded
    /\ last.response.body.updated_at # NullTime
    /\ last.response.body.title = "b"

(* C5.  For every entity, updated_at is null when the entity is created,   *)
(* and after every successful update, whatever the fields (also fields     *)
(* equal to the stored ones), it is non-null and is the time of that       *)
(* update.                                                                 *)
C5_UpdatedAtFollowsEveryUpdate ==
    /\ (last.op \in {"create_task", "create_department", "create_role",
                     "create_function"} /\ Succeeded) =>
           last.response.body.updated_at = NullTime
    /\ (last.op \in {"update_task", "update_department", "update_role",
                     "update_function"} /\ Succeeded) =>
           /\ last.response.body.updated_at # NullTime
           /\ last.response.body.updated_at = now
    /\ (last.op = "update_task" /\ Succeeded) =>
           get_task(db, last.id).updated_at = now
    /\ (last.op = "update_department" /\ Succeeded) =>
           get_department(db, last.id).updated_at = now
    /\ (last.op = "update_role" /\ Succeeded) =>
           get_role(db, last.id).updated_at = now
    /\ (last.op = "update_function" /\ Succeeded) =>
           get_function(db, last.id).updated_at = now

(* C6.  update of a stored entity is a full replace: afterwards every base  *)
(* field of the stored row has the payload's value, an optional field the  *)
(* payload leaves out has its schema default (description null, completed  *)
(* false) and not its previous value, and id and created_at are unchanged. *)
C6_UpdateIsFullReplace ==
    /\ (last.op = "update_task" /\ Succeeded) =>
          LET o == get_task(db, last.id)
              p == last.payload
          IN  /\ o # None
              /\ o.title = p.title
              /\ o.description = Described(p)
              /\ o.completed = (IF "completed" \in DOMAIN p THEN p.completed ELSE FALSE)
              /\ o.id = last.id
              /\ o.created_at = get_task(pre, last.id).created_at
              /\ last.response.body = o
    /\ (last.op = "update_department" /\ Succeeded) =>
          LET o == get_department(db, last.id)
              p == last.payload
          IN  /\ o # None
              /\ o.name = p.name
              /\ o.description = Described(p)
              /\ o.id = last.id
              /\ o.created_at = get_department(pre, last.id).created_at
              /\ last.response.body = o
    /\ (last.op = "update_role" /\ Succeeded) =>
          LET o == get_role(db, last.id)
              p == last.payload
          IN  /\ o # None
              /\ o.name = p.name
              /\ o.description = Described(p)
              /\ o.department_id = p.department_id
              /\ o.id = last.id
              /\ o.created_at = get_role(pre, last.id).created_at
              /\ last.response.body = o
    /\ (last.op = "update_function" /\ Succeeded) =>
          LET o == get_function(db, last.id)
              p == last.payload
          IN  /\ o # None
              /\ o.name = p.name
              /\ o.description = Described(p)
              /\ o.role_id = p.role_id
              /\ o.id = last.id
              /\ o.created_at = get_function(pre, last.id).created_at
              /\ last.response.body = o

\* a Task with a description and completed set has just been updated with a
\* payload that leaves both out
C6_Witness ==
    /\ last.op = "update_task"
    /\ Succeeded
    /\ DOMAIN last.payload = {"title"}
    /\ get_task(pre, last.id).description = "d"
    /\ get_task(pre, last.id).completed = TRUE

(* C7.  list(skip = 0, limit = 100) is the stored entities of the type in  *)
(* creation order, and list(skip = k, limit) is that list without its      *)
(* first k elements, cut to at most limit elements; list_by_parent is the  *)
(* same over the entities whose parent id matches.                         *)
C7_ListIsWindowInCreationOrder ==
    LET tasks       == read_tasks(db, 0, DefaultLimit)
        departments == read_departments(db, 0, DefaultLimit)
        roles       == read_roles(db, 0, DefaultLimit)
        functions   == read_functions(db, 0, DefaultLimit)
    IN  /\ tasks.status = 200 /\ InCreationOrder(tasks.body, Rows(db.tasks))
        /\ departments.status = 200
        /\ InCreationOrder(departments.body, Rows(db.departments))
        /\ roles.status = 200 /\ InCreationOrder(roles.body, Rows(db.roles))
        /\ functions.status = 200
        /\ InCreationOrder(functions.body, Rows(db.functions))
        /\ \A skip \in 0..MaxSkip, limit \in Limits :
              /\ read_tasks(db, skip, limit) = OK(Take(Drop(tasks.body, skip), limit))
              /\ read_departments(db, skip, limit) =
                     OK(Take(Drop(departments.body, skip), limit))
              /\ read_roles(db, skip, limit) = OK(Take(Drop(roles.body, skip), limit))
              /\ read_functions(db, skip, limit) =
                     OK(Take(Drop(functions.body, skip), limit))
        /\ \A parent \in AnyIds :
              LET by_department == read_roles_by_department(db, parent, 0, DefaultLimit)
                  by_role       == read_functions_by_role(db, parent, 0, DefaultLimit)
              IN  /\ InCreationOrder(by_department.body,
                         { r \in Rows(db.roles) : r.department_id = parent })
                  /\ InCreationOrder(by_role.body,
                         { f \in Rows(db.functions) : f.role_id = parent })
                  /\ \A skip \in 0..MaxSkip, limit \in Limits :
                        /\ read_roles_by_department(db, parent, skip, limit) =
                               OK(Take(Drop(by_department.body, skip), limit))
                        /\ read_functions_by_role(db, parent, skip, limit) =
                               OK(Take(Drop(by_role.body, skip), limit))

\* a Task was deleted and another created after it, so that two Tasks are
\* stored and a window with skip = 1 and limit = 1 is neither empty nor all
C7_Witness ==
    /\ last.op = "create_task"
    /\ Succeeded
    /\ Len(db.tasks) = 2
    /\ Len(pre.tasks) = 1
    /\ db.tasks[2].created_at > db.tasks[1].created_at + 2
    /\ db.tasks[1].updated_at = NullTime
    /\ TotalRows(db) = 2

(* C8.  In every reachable state the child listings of a parent id that    *)
(* has no stored row (never created, or deleted) are an empty sequence,    *)
(* answered without an error.                                              *)
C8_ChildrenOfAbsentParentEmpty ==
    \A parent \in AnyIds, skip \in 0..MaxSkip, limit \in Limits :
        /\ get_department(db, parent) = None =>
               read_roles_by_department(db, parent, skip, limit) = OK(<< >>)
        /\ get_role(db, parent) = None =>
               read_functions_by_role(db, parent, skip, limit) = OK(<< >>)

\* a Department has just been deleted while Roles of another one are stored
C8_Witness ==
    /\ last.op = "delete_department"
    /\ Succeeded
    /\ get_department(db, last.id) = None
    /\ Len(db.roles) > 0

(* C9.  In every reachable state the nested response of GET department by  *)
(* id embeds exactly the stored Roles whose department_id is that id, and  *)
(* the nested response of GET role by id exactly the stored Functions      *)
(* whose role_id is that id, also after a child was moved or deleted.      *)
C9_NestedEmbedsExactlyChildren ==
    \A id \in AnyIds :
        /\ read_department(db, id).status = (IF id \in Keys(db.departments) THEN 200 ELSE 404)
        /\ read_department(db, id).status = 200 =>
               Exactly(read_department(db, id).body.roles,
                       { r \in Rows(db.roles) : r.department_id = id })
        /\ read_role(db, id).status = (IF id \in Keys(db.roles) THEN 200 ELSE 404)
        /\ read_role(db, id).status = 200 =>
               Exactly(read_role(db, id).body.functions,
                       { f \in Rows(db.functions) : f.role_id = id })

\* a Role has just been moved to another Department by update
C9_Witness ==
    /\ last.op = "update_role"
    /\ Succeeded
    /\ get_role(pre, last.id).department_id # get_role(db, last.id).department_id
    /\ Len(read_department(db, get_role(db, last.id).department_id).body.roles) > 0

(* C10.  delete_role on a stored Role with K Functions removes exactly     *)
(* that Role and its K Functions; its Department, every other Role, the    *)
(* Functions of other Roles and all Tasks stay as they were.               *)
C10_DeleteRoleFrame ==
    (last.op = "delete_role" /\ Succeeded) =>
        /\ last.id \in Keys(pre.roles)
        /\ Rows(db.roles) = { r \in Rows(pre.roles) : r.id # last.id }
        /\ Rows(db.functions) = { f \in Rows(pre.functions) : f.role_id # last.id }
        /\ Len(db.roles) = Len(pre.roles) - 1
        /\ Len(pre.functions) - Len(db.functions) =
               Cardinality({ f \in Rows(pre.functions) : f.role_id = last.id })
        /\ db.departments = pre.departments
        /\ db.tasks = pre.tasks

\* a Role that had a Function has just been deleted and its Department stays
C10_Witness ==
    /\ last.op = "delete_role"
    /\ Succeeded
    /\ \E f \in Rows(pre.functions) : f.role_id = last.id
    /\ last.response.body.department_id \in Keys(db.departments)

====
